---- MODULE Spec2Model ----
(***************************************************************************)
(* LPMLNTransformer (transformer.py): the rewriting of LP^MLN rules into   *)
(* ASP rules with weak constraints.                                        *)
(*                                                                         *)
(* AST nodes are records tagged by k (the clingo ast_type); a Python list  *)
(* is a sequence.  Source locations are left out: no handler reads them    *)
(* and clingo's node equality ignores them.  The clingo constructors copy  *)
(* the body they are given, so a rule built from the list `body` keeps the *)
(* literals the list held at that moment; the later insert/del on the list *)
(* are modelled as new sequence values, in the order of the code.          *)
(***************************************************************************)
EXTENDS Integers, Sequences, FiniteSets, TLC

VARIABLES
    translate_hr,       \* options[0].flag
    use_unsat,          \* options[1].flag
    two_solve_calls,    \* options[2].flag
    power_of_ten,       \* options[3]
    rule_idx,           \* self.rule_idx
    weight,             \* self.weight, as left by the last visit_Rule
    theory_type,        \* self.theory_type
    global_variables,   \* self.global_variables
    builder,            \* the ProgramBuilder: every statement added so far
    last,               \* history: what the last visit was given and did
    log                 \* history: branch and embedded index of every visit

vars == << translate_hr, use_unsat, two_solve_calls, power_of_ten, rule_idx,
           weight, theory_type, global_variables, builder, last,
           log >>

-----------------------------------------------------------------------------
(* Bounds of the model *)

\* longest program built from the core statements
MaxRules == 3
\* longest run of core statements that a statement of any shape may follow
MaxPrefix == 1
\* longest rule list the P-log converter returns
MaxPlogRules == 2

-----------------------------------------------------------------------------
(* Python values and clingo symbols *)

None == [k |-> "None"]
Unset == [k |-> "unset"]
Str(s) == [k |-> "str", s |-> s]
PyList(items) == [k |-> "list", items |-> items]

Number(n) == [k |-> "Number", number |-> n]
String(s) == [k |-> "String", string |-> s]
\* a symbolic constant such as p, q, false
Id(name) == [k |-> "Id", name |-> name]

(* clingo.ast constructors *)
Variable(name) == [k |-> "Variable", name |-> name]
SymbolicTerm(symbol) == [k |-> "SymbolicTerm", symbol |-> symbol]
Function(name, arguments) ==
    [k |-> "Function", name |-> name, arguments |-> arguments]
SymbolicAtom(symbol) == [k |-> "SymbolicAtom", symbol |-> symbol]
BooleanConstant(value) == [k |-> "BooleanConstant", value |-> value]
Literal(sign, atom) == [k |-> "Literal", sign |-> sign, atom |-> atom]
ConditionalLiteral(literal, condition) ==
    [k |-> "ConditionalLiteral", literal |-> literal, condition |-> condition]
Guard(comparison, term) ==
    [k |-> "Guard", comparison |-> comparison, term |-> term]
Aggregate(left_guard, elements, right_guard) ==
    [k |-> "Aggregate", left_guard |-> left_guard, elements |-> elements,
     right_guard |-> right_guard]
TheoryAtom(term) == [k |-> "TheoryAtom", term |-> term]
Rule(head, body) == [k |-> "Rule", head |-> head, body |-> body]
Minimize(w, priority, terms, body) ==
    [k |-> "Minimize", weight |-> w, priority |-> priority, terms |-> terms,
     body |-> body]

\* str() of a term that is a symbolic constant or a number
str(term) ==
    IF term.k = "SymbolicTerm" /\ term.symbol.k = "Id" THEN term.symbol.name
    ELSE IF term.k = "SymbolicTerm" /\ term.symbol.k = "Number"
         THEN ToString(term.symbol.number)
    ELSE "?"

-----------------------------------------------------------------------------
(* The scratch state a nested visit reads and writes: self.weight,         *)
(* self.theory_type, self.global_variables.  `writes` is a history field:  *)
(* every value assigned to self.weight since visit_Rule was entered.       *)

SetWeight(self, w) ==
    [self EXCEPT !.weight = w, !.writes = Append(self.writes, w)]

\* utils.calculate_weight(weight, power_of_ten): the scaled weight, a symbol
calculate_weight(raw, exponent) ==
    [k |-> "Weight", raw |-> raw, exponent |-> exponent]

\* symbol.number / float(eval(symbol.string))
WeightArgument(symbol) ==
    IF symbol.k = "Number" THEN [k |-> "int", n |-> symbol.number]
    ELSE [k |-> "float", expr |-> symbol.string]

\* log(float(eval(symbol.string)))
LogArgument(symbol) ==
    [k |-> "log", of |-> [k |-> "float", expr |-> symbol.string]]

\* p = float(eval(symbol.string)); log(p / (1 - p))
ProblogArgument(symbol) ==
    [k |-> "log",
     of |-> [k |-> "odds", p |-> [k |-> "float", expr |-> symbol.string]]]

\* as visit_Variable, without the membership test
visit_Variable_AlwaysAppend(variable, self) ==
    [ast |-> variable,
     self |-> [self EXCEPT !.global_variables =
                               PyList(Append(self.global_variables.items, variable))]]

\* visit_Variable: collect the variable unless an equal one is in the list
visit_Variable(variable, self) ==
    LET gv == self.global_variables.items
    IN  IF \E i \in 1..Len(gv) : gv[i] = variable
        THEN [ast |-> variable, self |-> self]
        ELSE [ast |-> variable,
              self |-> [self EXCEPT !.global_variables =
                                        PyList(Append(gv, variable))]]

\* as ResetWeight, without the assignment
ResetWeight_Missing(self) == self

\* line 211: self.weight = ''
ResetWeight(self) == SetWeight(self, Str(""))

\* as EvidenceSign, with the two signs exchanged
EvidenceSign_Exchanged(args) ==
    IF Len(args) > 1 /\ str(args[2]) = "false" THEN "Negation" ELSE "NoSign"

\* lines 221-224: the sign of the literal an evidence atom becomes
EvidenceSign(args) ==
    IF Len(args) > 1 /\ str(args[2]) = "false" THEN "NoSign" ELSE "Negation"

TheoryTypes == {"query", "random", "pr", "obs", "do"}

\* visit_TheoryAtom
visit_TheoryAtom(atom, self) ==
    LET s1 == ResetWeight(self)
        name == atom.term.name
        args == atom.term.arguments
    IN  IF name \in TheoryTypes
        THEN [ast |-> atom, self |-> [s1 EXCEPT !.theory_type = name]]
        ELSE IF name = "evidence"
        THEN [ast |-> Literal(EvidenceSign(args), SymbolicAtom(args[1])),
              self |-> [s1 EXCEPT !.theory_type = name]]
        ELSE LET symbol == args[1].symbol
                 raw == IF name = "weight" THEN WeightArgument(symbol)
                        ELSE IF name = "log" THEN LogArgument(symbol)
                        ELSE ProblogArgument(symbol)
             IN  [ast |-> BooleanConstant(TRUE),
                  self |-> SetWeight(s1, calculate_weight(raw, self.power_of_ten))]

RECURSIVE visit(_, _)
RECURSIVE visit_sequence(_, _)

\* Transformer.visit_sequence: the elements in order, the state threaded
visit_sequence(sequence, self) ==
    IF Len(sequence) = 0 THEN [ast |-> sequence, self |-> self]
    ELSE LET h == visit(Head(sequence), self)
             t == visit_sequence(Tail(sequence), h.self)
         IN  [ast |-> <<h.ast>> \o t.ast, self |-> t.self]

\* visit: the handler of the node's type if there is one, else the node
\* rebuilt from its visited children (child_keys in clingo's order)
visit(node, self) ==
    IF node.k = "Variable" THEN visit_Variable(node, self)
    ELSE IF node.k = "TheoryAtom" THEN visit_TheoryAtom(node, self)
    ELSE IF node.k = "Literal"
    THEN LET a == visit(node.atom, self)
         IN  [ast |-> [node EXCEPT !.atom = a.ast], self |-> a.self]
    ELSE IF node.k = "SymbolicAtom"
    THEN LET a == visit(node.symbol, self)
         IN  [ast |-> [node EXCEPT !.symbol = a.ast], self |-> a.self]
    ELSE IF node.k = "Function"
    THEN LET a == visit_sequence(node.arguments, self)
         IN  [ast |-> [node EXCEPT !.arguments = a.ast], self |-> a.self]
    ELSE IF node.k = "ConditionalLiteral"
    THEN LET a == visit(node.literal, self)
             b == visit_sequence(node.condition, a.self)
         IN  [ast |-> [node EXCEPT !.literal = a.ast, !.condition = b.ast],
              self |-> b.self]
    ELSE IF node.k = "Guard"
    THEN LET a == visit(node.term, self)
         IN  [ast |-> [node EXCEPT !.term = a.ast], self |-> a.self]
    ELSE IF node.k = "Aggregate"
    THEN LET a == visit(node.left_guard, self)
             b == visit_sequence(node.elements, a.self)
             c == visit(node.right_guard, b.self)
         IN  [ast |-> [node EXCEPT !.left_guard = a.ast, !.elements = b.ast,
                                   !.right_guard = c.ast],
              self |-> c.self]
    ELSE [ast |-> node, self |-> self]

-----------------------------------------------------------------------------
(* The weighted-rule encoder.  `self` is the transformer object: the       *)
(* options, rule_idx and the scratch fields.                               *)

\* as _get_constraint_parameters, with the two priorities exchanged
_get_constraint_parameters_PrioritiesExchanged(self) ==
    LET idx == SymbolicTerm(Number(self.rule_idx))
        s1 == [self EXCEPT !.global_variables =
                               Function("", self.global_variables.items)]
    IN  IF s1.weight = Str("alpha")
        THEN [idx |-> idx,
              constraint_weight |-> SymbolicTerm(Number(1)),
              priority |-> SymbolicTerm(Number(0)),
              self |-> SetWeight(s1, SymbolicTerm(String("alpha")))]
        ELSE [idx |-> idx,
              constraint_weight |-> SymbolicTerm(s1.weight),
              priority |-> SymbolicTerm(Number(1)),
              self |-> s1]

\* _get_constraint_parameters: idx, constraint weight and priority of the
\* weak constraint; collapses self.global_variables into one term
_get_constraint_parameters(self) ==
    LET idx == SymbolicTerm(Number(self.rule_idx))
        s1 == [self EXCEPT !.global_variables =
                               Function("", self.global_variables.items)]
    IN  IF s1.weight = Str("alpha")
        THEN [idx |-> idx,
              constraint_weight |-> SymbolicTerm(Number(1)),
              priority |-> SymbolicTerm(Number(1)),
              self |-> SetWeight(s1, SymbolicTerm(String("alpha")))]
        ELSE [idx |-> idx,
              constraint_weight |-> SymbolicTerm(s1.weight),
              priority |-> SymbolicTerm(Number(0)),
              self |-> s1]

\* _get_unsat_atoms: the literals 'unsat(idx, weight, globals)' and its negation
_get_unsat_atoms(self, idx) ==
    LET unsat_arguments == <<idx, self.weight, self.global_variables>>
        unsat == SymbolicAtom(Function("unsat", unsat_arguments))
    IN  [unsat |-> Literal("NoSign", unsat),
         not_unsat |-> Literal("Negation", unsat)]

\* as UnboundedChoice, testing for no elements instead of no guards
UnboundedChoice_NoElements(head) ==
    /\ head.k = "Aggregate"
    /\ Len(head.elements) = 0

\* lines 81-82: a choice head without bound
UnboundedChoice(head) ==
    /\ head.k = "Aggregate"
    /\ head.left_guard = None
    /\ head.right_guard = None

\* lines 85, 88: the negated head
NotHead(head) ==
    IF head.k = "Aggregate" THEN Literal("Negation", head)
    ELSE Literal("Negation", head.atom)

\* as UnsatEncoding, without 'del body[0]'
UnsatEncoding_NoDelete(head, body, not_head, p) ==
    LET u == _get_unsat_atoms(p.self, p.idx)
        body1 == <<not_head>> \o body
        asp_rule1 == Rule(u.unsat, body1)
        body3 == <<u.not_unsat>> \o body1
        asp_rule2 == Rule(head, body3)
        asp_rule3 == Minimize(p.constraint_weight, p.priority,
                              <<p.idx, p.self.global_variables>>, <<u.unsat>>)
    IN  <<asp_rule1, asp_rule2, asp_rule3>>

\* lines 92-106: the three rules of the unsat encoding
UnsatEncoding(head, body, not_head, p) ==
    LET u == _get_unsat_atoms(p.self, p.idx)
        body1 == <<not_head>> \o body               \* body.insert(0, not_head)
        asp_rule1 == Rule(u.unsat, body1)
        body2 == Tail(body1)                        \* del body[0]
        body3 == <<u.not_unsat>> \o body2           \* body.insert(0, not_unsat)
        asp_rule2 == Rule(head, body3)
        asp_rule3 == Minimize(p.constraint_weight, p.priority,
                              <<p.idx, p.self.global_variables>>, <<u.unsat>>)
    IN  <<asp_rule1, asp_rule2, asp_rule3>>

\* as CompactEncoding, with ext_helper prepended whatever the priority
CompactEncoding_AlwaysHelper(head, body, not_head, p) ==
    LET isAgg == head.k = "Aggregate"
        isFalse == ~isAgg /\ head.atom.k = "BooleanConstant" /\ ~head.atom.value
        asp_rules1 ==
            IF isAgg
            THEN <<Rule(Aggregate(None, head.elements, None), body)>>
            ELSE IF isFalse THEN <<>>
            ELSE <<Rule(Aggregate(None, <<ConditionalLiteral(head, <<>>)>>, None),
                        body)>>
        body1 == IF isFalse THEN body ELSE <<not_head>> \o body
        ext_helper_atom ==
            Literal("NoSign", SymbolicAtom(Function("ext_helper", <<>>)))
        body2 == IF p.self.two_solve_calls
                 THEN <<ext_helper_atom>> \o body1
                 ELSE body1
        weak_constraint == Minimize(p.constraint_weight, p.priority,
                                    <<p.idx, p.self.global_variables>>, body2)
    IN  Append(asp_rules1, weak_constraint)

\* lines 107-142: the choice rule, if any, and the weak constraint
CompactEncoding(head, body, not_head, p) ==
    LET isAgg == head.k = "Aggregate"
        isFalse == ~isAgg /\ head.atom.k = "BooleanConstant" /\ ~head.atom.value
        asp_rules1 ==
            IF isAgg
            THEN <<Rule(Aggregate(None, head.elements, None), body)>>
            ELSE IF isFalse THEN <<>>
            ELSE <<Rule(Aggregate(None, <<ConditionalLiteral(head, <<>>)>>, None),
                        body)>>
        body1 == IF isFalse THEN body ELSE <<not_head>> \o body
        ext_helper_atom ==
            Literal("NoSign", SymbolicAtom(Function("ext_helper", <<>>)))
        body2 == IF p.self.two_solve_calls /\ str(p.priority) = "0"
                 THEN <<ext_helper_atom>> \o body1
                 ELSE body1
        weak_constraint == Minimize(p.constraint_weight, p.priority,
                                    <<p.idx, p.self.global_variables>>, body2)
    IN  Append(asp_rules1, weak_constraint)

\* _convert_rule
_convert_rule(head, body, self) ==
    LET p == _get_constraint_parameters(self)
    IN  IF UnboundedChoice(head)
        THEN [asp_rules |-> <<Rule(head, body)>>, self |-> p.self]
        ELSE IF self.use_unsat
        THEN [asp_rules |-> UnsatEncoding(head, body, NotHead(head), p),
              self |-> p.self]
        ELSE [asp_rules |-> CompactEncoding(head, body, NotHead(head), p),
              self |-> p.self]

-----------------------------------------------------------------------------
(* The rule-level handler *)

\* plog.convert_random / convert_pr / convert_obs_do: a list of n >= 1 rules
\* made from the head (and, for random and pr, the body)
ConvertPlog(theory, head, body, n) ==
    [i \in 1..n |->
        Rule([k |-> "Plog", theory |-> theory, part |-> i, of |-> head],
             IF theory \in {"obs", "do"} THEN <<>> ELSE body)]

\* line 157: a rule without body whose head is no theory atom
IsFact(rule) == rule.head.k # "TheoryAtom" /\ Len(rule.body) = 0

\* as SkipHardRule, with the option read the wrong way round
SkipHardRule_OptionInverted(self) ==
    self.weight = Str("alpha") /\ self.translate_hr

\* line 183: a hard rule that is not to be translated
SkipHardRule(self) == self.weight = Str("alpha") /\ ~self.translate_hr

\* as IncrementRuleIdx, without the increment
IncrementRuleIdx_Missing(self) == self

\* lines 184, 188: self.rule_idx += 1
IncrementRuleIdx(self) == [self EXCEPT !.rule_idx = self.rule_idx + 1]

\* as BuilderAdds, adding the last rule too
BuilderAdds_All(asp_rules) == asp_rules

\* lines 191-192: the rules added to the builder by the handler
BuilderAdds(asp_rules) == SubSeq(asp_rules, 1, Len(asp_rules) - 1)

\* line 194: the rule returned
LastRule(asp_rules) == asp_rules[Len(asp_rules)]

\* what one call of visit_Rule does: the rule returned, the rules added to
\* the builder, the object afterwards; the other fields are history
Outcome(branch, ret, adds, asp_rules, head, body, collected, self) ==
    [branch |-> branch, ret |-> ret, adds |-> adds, asp_rules |-> asp_rules,
     head |-> head, body |-> body, collected |-> collected, self |-> self]

\* visit_Rule; n is the number of rules the P-log converter returns
visit_Rule(rule, self, n) ==
    LET s0 == [self EXCEPT !.weight = Str("alpha"), !.theory_type = "",
                           !.global_variables = PyList(<<>>),
                           !.writes = <<Str("alpha")>>]
    IN  IF IsFact(rule)
        THEN Outcome("fact", rule, <<>>, <<>>, rule.head, rule.body,
                     s0.global_variables, s0)
        ELSE
        LET h == visit(rule.head, s0)
            b == visit_sequence(rule.body, h.self)
            head == h.ast
            body == b.ast
            s == b.self
            gv == s.global_variables
        IN  IF s.theory_type = "query"
            THEN Outcome("query", rule, <<>>, <<>>, head, body, gv, s)
            ELSE IF s.theory_type = "evidence"
            THEN Outcome("evidence",
                         Rule(Literal("NoSign", BooleanConstant(FALSE)), <<head>>),
                         <<>>, <<>>, head, body, gv, s)
            ELSE IF s.theory_type \in {"random", "pr", "obs", "do"}
            THEN LET asp_rules == ConvertPlog(s.theory_type, head, body, n)
                 IN  Outcome("plog", LastRule(asp_rules), BuilderAdds(asp_rules),
                             asp_rules, head, body, gv, s)
            ELSE IF SkipHardRule(s)
            THEN Outcome("hard", rule, <<>>, <<>>, head, body, gv,
                         IncrementRuleIdx(s))
            ELSE LET c == _convert_rule(head, body, s)
                 IN  Outcome("encoder", LastRule(c.asp_rules),
                             BuilderAdds(c.asp_rules), c.asp_rules, head, body,
                             gv, IncrementRuleIdx(c.self))

\* visit_Minimize: weak constraints pass through
visit_Minimize(minimize) == minimize

-----------------------------------------------------------------------------
(* The inputs: statements as the parser hands them to the driver *)

X == Variable("X")
Y == Variable("Y")
Const(name) == SymbolicTerm(Id(name))
Atom(name, arguments) == Literal("NoSign", SymbolicAtom(Function(name, arguments)))
NotAtom(name, arguments) ==
    Literal("Negation", SymbolicAtom(Function(name, arguments)))
\* a theory atom &name(arguments) as a body literal
Annotation(name, symbol) ==
    Literal("NoSign", TheoryAtom(Function(name, <<SymbolicTerm(symbol)>>)))

PlainHeads == { Atom("h", args) : args \in {<<>>, <<X>>, <<Y, X>>} }
BooleanHeads == { Literal("NoSign", BooleanConstant(v)) : v \in BOOLEAN }
LeftGuards == { None, Guard("<=", SymbolicTerm(Number(1))) }
RightGuards == { None, Guard("<=", SymbolicTerm(Number(1))), Guard("<=", Y) }
AggregateHeads ==
    { Aggregate(l, <<ConditionalLiteral(Atom("a", <<X>>), <<>>)>>, r) :
        l \in LeftGuards, r \in RightGuards }
TheoryHeads ==
    { TheoryAtom(Function(name, <<Const("p")>>)) :
        name \in TheoryTypes \cup {"evidence"} }
    \cup { TheoryAtom(Function("evidence", <<Const("p"), Const(v)>>)) :
             v \in {"false", "true"} }

PlainBodies ==
    { <<Atom("b", <<X>>)>>, <<NotAtom("b", <<Y>>), Atom("c", <<X, Y>>)>> }
WeightedBodies ==
    { <<Atom("b", <<X>>), Annotation("weight", Number(2))>>,
      <<Annotation("weight", String("0.5")), Atom("b", <<Y>>)>>,
      <<Atom("b", <<X>>), Annotation("log", String("0.5"))>>,
      <<Annotation("problog", String("0.75"))>>,
      <<Annotation("weight", Number(2)), Annotation("log", String("0.5"))>> }

\* every rule shape: weights are body annotations, the others head annotations
Rules ==
    { Rule(h, b) : h \in PlainHeads \cup BooleanHeads \cup AggregateHeads,
                   b \in {<<>>} \cup PlainBodies \cup WeightedBodies }
    \cup { Rule(h, b) : h \in TheoryHeads, b \in {<<>>} \cup PlainBodies }

\* an already translated weak constraint
WeakConstraint ==
    Minimize(SymbolicTerm(Number(1)), SymbolicTerm(Number(0)), <<>>,
             <<Atom("b", <<X>>)>>)

Fact == Rule(Atom("h", <<>>), <<>>)
HardRule == Rule(Atom("h", <<X>>), <<Atom("b", <<X>>)>>)
SoftRule ==
    Rule(Atom("h", <<Y, X>>), <<Atom("b", <<X>>), Annotation("weight", Number(2))>>)
SoftChoice ==
    Rule(Aggregate(None, <<ConditionalLiteral(Atom("a", <<X>>), <<>>)>>, None),
         <<Annotation("problog", String("0.75"))>>)
Evidence == Rule(TheoryAtom(Function("evidence", <<Const("p")>>)), <<>>)
Random == Rule(TheoryAtom(Function("random", <<Const("p")>>)), <<>>)
Query == Rule(TheoryAtom(Function("query", <<Const("p")>>)), <<>>)

\* the statements a longer program is built from
CoreStatements ==
    { Fact, HardRule, SoftRule, SoftChoice, Evidence, Random, Query,
      WeakConstraint }

\* the scaling exponents of a session
PowersOfTen == {0, 3}

\* the driver may feed stm next: up to MaxRules core statements, or up to
\* MaxPrefix core statements and then one statement of any shape
MayFeed(stm) ==
    /\ Len(log) < MaxRules
    /\ \A i \in 1..Len(log) : log[i].core
    /\ stm \in CoreStatements \/ Len(log) <= MaxPrefix

\* the sizes of the list the P-log converter may return for the rule
PlogSizes(rule) ==
    IF rule.head.k = "TheoryAtom" /\ rule.head.term.name \in {"random", "pr", "obs", "do"}
    THEN 1..MaxPlogRules
    ELSE {1}

-----------------------------------------------------------------------------
(* The session *)

\* the transformer object
Self ==
    [rule_idx |-> rule_idx, translate_hr |-> translate_hr,
     use_unsat |-> use_unsat, two_solve_calls |-> two_solve_calls,
     power_of_ten |-> power_of_ten, weight |-> weight,
     theory_type |-> theory_type, global_variables |-> global_variables,
     writes |-> <<>>]

\* __init__
Init ==
    /\ translate_hr \in BOOLEAN
    /\ use_unsat \in BOOLEAN
    /\ two_solve_calls \in BOOLEAN
    /\ power_of_ten \in PowersOfTen
    /\ rule_idx = 0
    /\ weight = Unset
    /\ theory_type = Unset
    /\ global_variables = Unset
    /\ builder = <<>>
    /\ last = None
    /\ log = <<>>

\* the driver's builder.add of the statement a visit returned
DriverAdd(b, ret) == Append(b, ret)

\* the embedded rule index of a replacement list: the first term of its
\* weak constraint, -1 when the list ends with no weak constraint
EmbeddedIdx(asp_rules) ==
    IF Len(asp_rules) > 0 /\ asp_rules[Len(asp_rules)].k = "Minimize"
    THEN asp_rules[Len(asp_rules)].terms[1].symbol.number
    ELSE -1

\* the driver feeds a rule: visit_Rule, then the returned rule is added
VisitRule ==
    \E rule \in Rules :
        /\ MayFeed(rule)
        /\ \E n \in PlogSizes(rule) :
           \E o \in {visit_Rule(rule, Self, n)} :
               /\ rule_idx' = o.self.rule_idx
               /\ weight' = o.self.weight
               /\ theory_type' = o.self.theory_type
               /\ global_variables' = o.self.global_variables
               /\ builder' = DriverAdd(builder \o o.adds, o.ret)
               /\ last' = [stm |-> rule, idx |-> rule_idx,
                           branch |-> o.branch, ret |-> o.ret,
                           adds |-> o.adds, asp_rules |-> o.asp_rules,
                           head |-> o.head, body |-> o.body,
                           collected |-> o.collected, writes |-> o.self.writes]
               /\ log' = Append(log, [branch |-> o.branch,
                                      core |-> rule \in CoreStatements,
                                      idx |-> EmbeddedIdx(o.asp_rules)])
        /\ UNCHANGED <<translate_hr, use_unsat, two_solve_calls, power_of_ten>>

\* the driver feeds a weak constraint: visit_Minimize
VisitMinimize ==
    /\ MayFeed(WeakConstraint)
    /\ LET ret == visit_Minimize(WeakConstraint)
       IN  /\ builder' = DriverAdd(builder, ret)
           /\ last' = [stm |-> WeakConstraint, idx |-> rule_idx,
                       branch |-> "minimize",
                       ret |-> ret, adds |-> <<>>, asp_rules |-> <<>>,
                       head |-> None, body |-> <<>>, collected |-> None,
                       writes |-> <<>>]
           /\ log' = Append(log, [branch |-> "minimize", core |-> TRUE,
                                  idx |-> -1])
    /\ UNCHANGED <<translate_hr, use_unsat, two_solve_calls, power_of_ten,
                   rule_idx, weight, theory_type, global_variables>>

Next == VisitRule \/ VisitMinimize

Spec == Init /\ [][Next]_vars

-----------------------------------------------------------------------------
(* What the properties read off the input rule, without the visitor *)

\* the last visit was of a rule
RuleVisited == last # None /\ last.stm.k = "Rule"

\* the theory atoms of a rule in the order of the traversal: head, then body
Annotations(rule) ==
    (IF rule.head.k = "TheoryAtom" THEN <<rule.head>> ELSE <<>>)
    \o [i \in 1..Len(SelectSeq(rule.body, LAMBDA l : l.atom.k = "TheoryAtom")) |->
            SelectSeq(rule.body, LAMBDA l : l.atom.k = "TheoryAtom")[i].atom]

IsWeightAnnotation(atom) == atom.term.name \in {"weight", "log", "problog"}

\* the scaled weight a weight annotation stands for
ScaledWeight(atom) ==
    LET symbol == atom.term.arguments[1].symbol
        float == [k |-> "float", expr |-> symbol.string]
        raw == IF atom.term.name = "weight"
               THEN (IF symbol.k = "Number" THEN [k |-> "int", n |-> symbol.number]
                     ELSE float)
               ELSE IF atom.term.name = "log" THEN [k |-> "log", of |-> float]
               ELSE [k |-> "log", of |-> [k |-> "odds", p |-> float]]
    IN  [k |-> "Weight", raw |-> raw, exponent |-> power_of_ten]

\* the body with every annotation literal erased to #true
Erased(body) ==
    [i \in 1..Len(body) |->
        IF body[i].atom.k = "TheoryAtom"
        THEN Literal(body[i].sign, BooleanConstant(TRUE))
        ELSE body[i]]

RECURSIVE VariablesOf(_)
RECURSIVE VariablesOfAll(_)
\* the variable occurrences of a node, left to right
VariablesOf(node) ==
    CASE node.k = "Variable" -> <<node>>
      [] node.k = "Literal" -> VariablesOf(node.atom)
      [] node.k = "SymbolicAtom" -> VariablesOf(node.symbol)
      [] node.k = "Function" -> VariablesOfAll(node.arguments)
      [] node.k = "ConditionalLiteral" ->
            VariablesOf(node.literal) \o VariablesOfAll(node.condition)
      [] node.k = "Guard" -> VariablesOf(node.term)
      [] node.k = "Aggregate" ->
            VariablesOf(node.left_guard) \o VariablesOfAll(node.elements)
            \o VariablesOf(node.right_guard)
      [] OTHER -> <<>>
VariablesOfAll(nodes) ==
    IF Len(nodes) = 0 THEN <<>>
    ELSE VariablesOf(Head(nodes)) \o VariablesOfAll(Tail(nodes))

\* the occurrences that are the first of their variable, in order
FirstOccurrences(occ) ==
    SelectSeq([i \in 1..Len(occ) |->
                  IF \E j \in 1..(i - 1) : occ[j] = occ[i] THEN None ELSE occ[i]],
              LAMBDA v : v # None)

\* the head is an aggregate with neither a left nor a right guard
Unguarded(head) ==
    head.k = "Aggregate" /\ head.left_guard = None /\ head.right_guard = None

\* the last visit reached the weighted encoder with a head to be encoded
Encoded == RuleVisited /\ last.branch = "encoder" /\ ~Unguarded(last.head)

\* the parameters the encoder's output is expected to carry
IdxTerm == SymbolicTerm(Number(last.idx))
GlobalsTerm == Function("", last.collected.items)
IsHard == Len(Annotations(last.stm)) = 0
NegatedHead ==
    IF last.head.k = "Aggregate" THEN Literal("Negation", last.head)
    ELSE Literal("Negation", last.head.atom)
WeightTerm ==
    IF IsHard THEN SymbolicTerm(String("alpha"))
    ELSE ScaledWeight(Annotations(last.stm)[Len(Annotations(last.stm))])

-----------------------------------------------------------------------------
(* Properties *)

\* C1: a rule with a non-empty body and no theory annotation, visited while
\* translate_hr is off, is returned as it was given and nothing is added to
\* the builder by the handler, whatever rule_idx and the other options are.
C1_HardRuleReturnedUnchanged ==
    (/\ RuleVisited
     /\ Len(last.stm.body) > 0
     /\ Len(Annotations(last.stm)) = 0
     /\ ~translate_hr)
    => (last.ret = last.stm /\ last.adds = <<>>)

C1_Witness ==
    /\ RuleVisited
    /\ Len(last.stm.body) > 0
    /\ Len(Annotations(last.stm)) = 0
    /\ ~translate_hr
    /\ last.idx > 0
    /\ use_unsat
    /\ last.ret = last.stm

\* the embedded indices of the session, as (position in the log, index)
Embedding == { i \in 1..Len(log) : log[i].idx >= 0 }
Consecutive(i, j) ==
    i \in Embedding /\ j \in Embedding /\ i < j
    /\ \A m \in (i + 1)..(j - 1) : m \notin Embedding
\* the visits between i and j that incremented rule_idx
Counted(i, j) ==
    { m \in (i + 1)..(j - 1) : log[m].branch \in {"hard", "encoder"} }

\* C2 as stated: each embedded rule index is the previous embedded index
\* plus exactly 1, whatever was visited in between.
C2_IndexStepsByOne ==
    \A i, j \in 1..Len(log) : Consecutive(i, j) => log[j].idx = log[i].idx + 1

\* C2 amended: each embedded rule index is strictly greater than the
\* previous one, by 1 plus the number of rules visited in between that were
\* untranslated hard rules or reached the encoder with an unguarded
\* aggregate head; the other statements in between do not change it.
C2_IndexStepsByCounted ==
    \A i, j \in 1..Len(log) :
        Consecutive(i, j) =>
            /\ log[j].idx > log[i].idx
            /\ log[j].idx = log[i].idx + 1 + Cardinality(Counted(i, j))

C2_Witness ==
    /\ Len(log) = 3
    /\ log[1].idx = 0
    /\ log[2].branch = "hard"
    /\ log[3].idx = 2

\* the list of rules that replaces the statement of the last visit
Replacement ==
    IF last.branch \in {"encoder", "plog"} THEN last.asp_rules ELSE <<last.ret>>

\* C3: a visit returns one rule; of a replacement list of n >= 1 rules the
\* first n-1 are added to the builder in order and the n-th is returned; an
\* early return adds nothing; so the builder grows by the replacement list.
C3_AllButLastAddedLastReturned ==
    [][ /\ last'.ret.k \in {"Rule", "Minimize"}
        /\ last'.branch \in {"encoder", "plog"} =>
              LET n == Len(last'.asp_rules)
              IN  /\ n >= 1
                  /\ last'.adds = SubSeq(last'.asp_rules, 1, n - 1)
                  /\ last'.ret = last'.asp_rules[n]
        /\ last'.branch \in {"fact", "query", "evidence", "hard"} =>
              last'.adds = <<>>
        /\ builder' = builder \o Replacement' ]_vars

C3_Witness ==
    /\ RuleVisited
    /\ last.branch = "encoder"
    /\ Len(last.asp_rules) = 3
    /\ Len(last.adds) = 2
    /\ Len(builder) = 7

\* C4: a weak constraint made for a hard rule has weight 1 at priority 1,
\* one made for a rule with a numeric weight has the scaled weight at
\* priority 0.
C4_HardAboveSoft ==
    (RuleVisited /\ last.branch = "encoder") =>
        \A i \in 1..Len(last.asp_rules) :
            last.asp_rules[i].k = "Minimize" =>
                IF IsHard
                THEN /\ last.asp_rules[i].weight = SymbolicTerm(Number(1))
                     /\ last.asp_rules[i].priority = SymbolicTerm(Number(1))
                ELSE /\ last.asp_rules[i].weight = SymbolicTerm(WeightTerm)
                     /\ last.asp_rules[i].priority = SymbolicTerm(Number(0))

C4_Witness ==
    /\ Encoded
    /\ IsHard
    /\ last.ret.k = "Minimize"
    /\ last.ret.priority = SymbolicTerm(Number(1))
    /\ Len(log) > 1
    /\ log[1].idx = 0
    /\ log[1].core

\* C5: a rule that reaches the encoder with an unguarded aggregate head is
\* returned as the one rule of its (visited) head and body, nothing is
\* added to the builder, in both encodings; rule_idx goes up by one.
C5_UnguardedChoiceKept ==
    (RuleVisited /\ last.branch = "encoder" /\ Unguarded(last.stm.head)) =>
        /\ last.asp_rules = <<Rule(last.stm.head, Erased(last.stm.body))>>
        /\ last.ret = Rule(last.stm.head, Erased(last.stm.body))
        /\ last.adds = <<>>
        /\ rule_idx = last.idx + 1

C5_Witness ==
    /\ RuleVisited
    /\ last.branch = "encoder"
    /\ Unguarded(last.stm.head)
    /\ Len(Annotations(last.stm)) > 0
    /\ use_unsat
    /\ last.ret.k = "Rule"

\* C6: a rule whose head is an evidence annotation becomes one integrity
\* constraint whose only body literal is the evidenced atom, unnegated
\* exactly when the second argument is 'false'; it is returned, nothing is
\* added to the builder.
C6_EvidenceConstraint ==
    (RuleVisited /\ last.stm.head.k = "TheoryAtom"
                 /\ last.stm.head.term.name = "evidence") =>
        LET args == last.stm.head.term.arguments
            sign == IF Len(args) = 2 /\ args[2] = Const("false")
                    THEN "NoSign" ELSE "Negation"
        IN  /\ last.ret = Rule(Literal("NoSign", BooleanConstant(FALSE)),
                               <<Literal(sign, SymbolicAtom(args[1]))>>)
            /\ last.adds = <<>>
            /\ rule_idx = last.idx

C6_Witness ==
    /\ RuleVisited
    /\ last.stm.head.k = "TheoryAtom"
    /\ last.stm.head.term.name = "evidence"
    /\ Len(last.stm.head.term.arguments) = 2
    /\ last.ret.body[1].sign = "NoSign"

\* C7: when a rule reaches the encoder, global_variables holds the distinct
\* variables of the rule's head and body, once each, in the order of their
\* first occurrence, and none of an earlier rule.
C7_GlobalVariables ==
    (RuleVisited /\ last.branch = "encoder") =>
        last.collected =
            PyList(FirstOccurrences(VariablesOf(last.stm.head)
                                    \o VariablesOfAll(last.stm.body)))

C7_Witness ==
    /\ RuleVisited
    /\ last.branch = "encoder"
    /\ Len(log) = 2
    /\ log[1].idx = 0
    /\ last.stm = HardRule
    /\ last.collected = PyList(<<X>>)

\* the unsat literal the encoder is expected to build
Unsat(sign) ==
    Literal(sign, SymbolicAtom(Function("unsat",
                                        <<IdxTerm, WeightTerm, GlobalsTerm>>)))

\* C8: in the unsat encoding a rule Head :- Body whose head is to be
\* encoded yields, in order, unsat :- notHead, Body; Head :- not unsat,
\* Body; and a weak constraint with the terms (idx, globals) over unsat.
C8_UnsatEncoding ==
    (Encoded /\ use_unsat) =>
        /\ Len(last.asp_rules) = 3
        /\ last.asp_rules[1] =
               Rule(Unsat("NoSign"), <<NegatedHead>> \o Erased(last.stm.body))
        /\ last.asp_rules[2] =
               Rule(last.stm.head, <<Unsat("Negation")>> \o Erased(last.stm.body))
        /\ last.asp_rules[3].k = "Minimize"
        /\ last.asp_rules[3].terms = <<IdxTerm, GlobalsTerm>>
        /\ last.asp_rules[3].body = <<Unsat("NoSign")>>

C8_Witness ==
    /\ Encoded
    /\ use_unsat
    /\ ~IsHard
    /\ last.idx > 0
    /\ Len(last.collected.items) = 2
    /\ Len(last.asp_rules) = 3

\* the choice rule the compact encoding is expected to start with, if any
ChoiceRules ==
    IF last.stm.head.k = "Aggregate"
    THEN <<Rule(Aggregate(None, last.stm.head.elements, None),
                Erased(last.stm.body))>>
    ELSE IF last.stm.head.atom = BooleanConstant(FALSE) THEN <<>>
    ELSE <<Rule(Aggregate(None, <<ConditionalLiteral(last.stm.head, <<>>)>>, None),
                Erased(last.stm.body))>>

\* the literals the weak constraint's body is expected to start with
Prefix ==
    (IF two_solve_calls /\ ~IsHard
     THEN <<Literal("NoSign", SymbolicAtom(Function("ext_helper", <<>>)))>>
     ELSE <<>>)
    \o (IF last.stm.head.k # "Aggregate"
           /\ last.stm.head.atom = BooleanConstant(FALSE)
        THEN <<>> ELSE <<NegatedHead>>)

\* C9: in the compact encoding a rule Head :- Body whose head is to be
\* encoded yields at most one choice rule over Body (none for a #false
\* head) and then one weak constraint with the terms (idx, globals) whose
\* body is Body after notHead (unless the head is #false) after ext_helper
\* (exactly when two_solve_calls is on and the priority is 0).
C9_CompactEncoding ==
    (Encoded /\ ~use_unsat) =>
        LET n == Len(last.asp_rules)
        IN  /\ n = Len(ChoiceRules) + 1
            /\ SubSeq(last.asp_rules, 1, n - 1) = ChoiceRules
            /\ last.asp_rules[n].k = "Minimize"
            /\ last.asp_rules[n].terms = <<IdxTerm, GlobalsTerm>>
            /\ last.asp_rules[n].body = Prefix \o Erased(last.stm.body)

C9_Witness ==
    /\ Encoded
    /\ ~use_unsat
    /\ two_solve_calls
    /\ ~IsHard
    /\ last.stm.head.k = "Aggregate"
    /\ last.idx > 0
    /\ Len(last.asp_rules) = 2
    /\ Len(last.ret.body) = 4

\* C10 as stated: weight starts as 'alpha', is overwritten at most once and
\* only for a weight annotation; the other annotations leave it unchanged.
C10_OverwrittenAtMostOnce ==
    RuleVisited =>
        /\ last.writes[1] = Str("alpha")
        /\ Len(last.writes) <= 2
        /\ (\A i \in 1..Len(Annotations(last.stm)) :
                ~IsWeightAnnotation(Annotations(last.stm)[i]))
           => last.writes = <<Str("alpha")>>

\* the writes of self.weight the annotations of a rule are expected to cause
RECURSIVE AnnotationWrites(_)
AnnotationWrites(atoms) ==
    IF Len(atoms) = 0 THEN <<>>
    ELSE (IF IsWeightAnnotation(Head(atoms))
          THEN <<Str(""), ScaledWeight(Head(atoms))>>
          ELSE <<Str("")>>)
         \o AnnotationWrites(Tail(atoms))

\* C10 amended: weight starts as 'alpha'; every theory annotation visited
\* first overwrites it with the empty string, a weight annotation then
\* overwrites it with its scaled weight while the other annotations leave
\* it empty; the only other write is the encoder's, of the term "alpha" in
\* place of 'alpha' when a hard rule is translated.
C10_WritesOfWeight ==
    RuleVisited =>
        last.writes =
            <<Str("alpha")>>
            \o (IF last.branch = "fact" THEN <<>>
                ELSE AnnotationWrites(Annotations(last.stm)))
            \o (IF last.branch = "encoder" /\ IsHard
                THEN <<SymbolicTerm(String("alpha"))>> ELSE <<>>)

C10_Witness ==
    /\ RuleVisited
    /\ last.branch = "query"
    /\ last.writes = <<Str("alpha"), Str("")>>
    /\ weight = Str("")

====
